---------------------------- MODULE Spec2Model ----------------------------
(***************************************************************************)
(* Model of clavel's feature-extraction orchestration (starfeatures.py)    *)
(* and of its stratified training/evaluation partitioning                  *)
(* (trainevalsets.py).                                                     *)
(*                                                                         *)
(* Python lists are modelled as TLA+ sequences.  The VALUES stored in them *)
(* (star indexes, class-local indexes, class identifiers) are the 0-based  *)
(* Python values; only the access list[i] is written At(list, i).          *)
(***************************************************************************)
EXTENDS Integers, Sequences, FiniteSets, TLC

(***************************************************************************)
(* Bounds of the model.                                                    *)
(***************************************************************************)
\* Largest number of stars held by the registry.
MaxStars == 3
\* Largest number of photometric filters of the database.
MaxFilters == 2
\* Largest number of (star, filter) curves the database lacks.
MaxFailures == 1
\* Largest number of partitioning calls made on one TrainEvalSet.
MaxCalls == 1

\* Class labels the stars may carry.
ClassNames == {"A", "B"}
\* Values of -c (minimum cardinality) a run may be started with.
MinCardinals == {0, 1, 2}
\* Values of -g (training percent) a run may be started with.
Percents == {0, 50, 100, 150}

\* The value Python calls None, as db.get_light_curve returns it.
None == << "None" >>
\* No exception has been raised.
NoError == "none"
\* The empty list appended as a fake feature.
EmptyFeature == << >>

VARIABLES
    class_names,    \* registry: class label of every star, in global order
    enabled,        \* registry: enabled flag of every star
    filters,        \* registry: filters added so far
    features,       \* registry: per filter, the list of feature vectors
    pfilters,       \* database: its photometric filters
    fpc,            \* position of calculate_features
    star_index,     \* calculate_features: loop variable over the stars
    filter_index,   \* calculate_features: loop variable over the filters
    curve,          \* calculate_features: the curve just retrieved
    failed,         \* history: (star, filter) pairs whose extraction failed
    classifarg,     \* the ClassifierArguments values the run was started with
    features_file,  \* what get_features finds about the features file
    io,             \* history: write_features / read_features invocations
    tes,            \* "none", "live" or "aborted": the TrainEvalSet object
    min_cardinal,   \* TrainEvalSet.__min_cardinal
    training_set_percent,  \* TrainEvalSet.__training_set_percent
    training_classes,      \* TrainEvalSet.__training_classes
    classes_indexes,       \* TrainEvalSet.__classes_indexes
    sets_of_training_indexes_for_classes,
    sets_of_evaluation_indexes_for_classes,
    calls,          \* history: partitioning calls made on the TrainEvalSet
    err             \* exception that ended the run, or NoError

regvars == << class_names, enabled, filters, features >>
argvars == << classifarg, features_file >>
featvars == << pfilters, fpc, star_index, filter_index, curve, failed,
              argvars, io >>
tesvars == << tes, min_cardinal, training_set_percent, training_classes,
              classes_indexes, sets_of_training_indexes_for_classes,
              sets_of_evaluation_indexes_for_classes, calls >>
vars == << regvars, featvars, tesvars, err >>

(***************************************************************************)
(* Python list helpers.                                                    *)
(***************************************************************************)
\* list[i] with a 0-based i.
At(list, i) == list[i + 1]

\* range(n) as a list.
RangeList(n) == [j \in 1..n |-> j - 1]

\* The elements of a list.
Elems(list) == {list[j] : j \in 1..Len(list)}

\* x in list.
Contains(list, x) == \E j \in 1..Len(list) : list[j] = x

\* list.index(x), 0-based, for an x the list holds.
IndexOf(list, x) ==
    (CHOOSE j \in 1..Len(list) :
        /\ list[j] = x
        /\ \A h \in 1..(j - 1) : list[h] # x) - 1

\* list with element number i (0-based) replaced by v.
SetAt(list, i, v) == [list EXCEPT ![i + 1] = v]

(***************************************************************************)
(* The star/class registry (star_classes).                                 *)
(***************************************************************************)
number_of_stars == Len(class_names)

class_name(i) == At(class_names, i)

is_enabled(i) == At(enabled, i)

\* Identifier of the star stored at a position; identifiers are unique.
get_instance_id(i) == << "star", i >>

\* enabled after disable_star(star_id).
disable_star(star_id) ==
    [j \in 1..Len(enabled) |->
        IF get_instance_id(j - 1) = star_id THEN FALSE ELSE enabled[j]]

\* features after add_feature(a_filter_index, feature).
add_feature(a_filter_index, feature) ==
    SetAt(features, a_filter_index,
          Append(At(features, a_filter_index), feature))

(***************************************************************************)
(* starfeatures.py                                                         *)
(***************************************************************************)
\* db.get_light_curve for a curve the database holds.
LightCurve(star_id, pfilter) == << "curve", star_id, pfilter >>

\* save_feature: the non-empty vector built from the features of a curve.
save_feature(a_curve) == << "features", a_curve[2], a_curve[3] >>

\* The two loops of calculate_features as one position: the next
\* (star, filter) pair after (s, f), or the end of the loops.
NextPair(s, f) ==
    IF f + 1 < Len(filters)
    THEN [star |-> s, filter |-> f + 1, at |-> "get_curve"]
    ELSE IF s + 1 < number_of_stars
         THEN [star |-> s + 1, filter |-> 0, at |-> "get_curve"]
         ELSE [star |-> s, filter |-> f, at |-> "write_features"]

\* The next pair is entered, or the loops are left.
Advance ==
    LET n == NextPair(star_index, filter_index)
    IN  /\ star_index' = n.star
        /\ filter_index' = n.filter
        /\ fpc' = n.at

\* for a_filter in db.pfilters: add_filter(a_filter)
AddFilter ==
    /\ fpc = "add_filter"
    /\ Len(filters) < Len(pfilters)
    /\ filters' = Append(filters, pfilters[Len(filters) + 1])
    /\ features' = Append(features, << >>)
    /\ UNCHANGED << class_names, enabled, pfilters, fpc, star_index,
                    filter_index, curve, failed, argvars, io, tesvars, err >>

\* filters = star_classes.filters, and the loops are entered.
EnterLoops ==
    /\ fpc = "add_filter"
    /\ Len(filters) = Len(pfilters)
    /\ fpc' = IF number_of_stars > 0 /\ Len(filters) > 0
              THEN "get_curve" ELSE "write_features"
    /\ UNCHANGED << regvars, pfilters, star_index, filter_index, curve,
                    failed, argvars, io, tesvars, err >>

\* curve = db.get_light_curve(star_id, pfilter): the curve, or None when the
\* database holds none for this star in this filter.
GetLightCurve ==
    /\ fpc = "get_curve"
    /\ \E c \in {LightCurve(get_instance_id(star_index),
                            At(filters, filter_index)), None} :
          /\ c = None => Cardinality(failed) < MaxFailures
          /\ curve' = c
    /\ fpc' = "try"
    /\ UNCHANGED << regvars, pfilters, star_index, filter_index, failed,
                    argvars, io, tesvars, err >>

\* A successful extraction enables the star again.
TryAddFeature_Reenables ==
    /\ fpc = "try"
    /\ curve # None
    /\ features' = add_feature(filter_index, save_feature(curve))
    /\ enabled' = [enabled EXCEPT ![star_index + 1] = TRUE]
    /\ curve' = None
    /\ Advance
    /\ UNCHANGED << class_names, filters, pfilters, failed,
                    argvars, io, tesvars, err >>

\* The try block succeeds: the features are calculated and added.
TryAddFeature ==
    /\ fpc = "try"
    /\ curve # None
    /\ features' = add_feature(filter_index, save_feature(curve))
    /\ curve' = None
    /\ Advance
    /\ UNCHANGED << class_names, enabled, filters, pfilters, failed,
                    argvars, io, tesvars, err >>

\* The handler forgets to disable the star.
ExceptDisableStar_NoDisable ==
    /\ fpc = "try"
    /\ curve = None
    /\ failed' = failed \cup {<< star_index, filter_index >>}
    /\ fpc' = "except_add_feature"
    /\ UNCHANGED << regvars, pfilters, star_index, filter_index, curve,
                    argvars, io, tesvars, err >>

\* The handler disables the star found at the position of the filter.
ExceptDisableStar_WrongIdentifier ==
    /\ fpc = "try"
    /\ curve = None
    /\ failed' = failed \cup {<< star_index, filter_index >>}
    /\ enabled' = disable_star(get_instance_id(filter_index))
    /\ fpc' = "except_add_feature"
    /\ UNCHANGED << class_names, filters, features, pfilters, star_index,
                    filter_index, curve, argvars, io, tesvars, err >>

\* The try block raises TypeError, the handler disables the star.
ExceptDisableStar ==
    /\ fpc = "try"
    /\ curve = None
    /\ failed' = failed \cup {<< star_index, filter_index >>}
    /\ enabled' = disable_star(get_instance_id(star_index))
    /\ fpc' = "except_add_feature"
    /\ UNCHANGED << class_names, filters, features, pfilters, star_index,
                    filter_index, curve, argvars, io, tesvars, err >>

\* The handler saves no fake feature.
ExceptAddFeature_NoPlaceholder ==
    /\ fpc = "except_add_feature"
    /\ Advance
    /\ UNCHANGED << regvars, pfilters, curve, failed, argvars, io, tesvars,
                    err >>

\* write_features is indented into the handler.
ExceptAddFeature_WritesInLoop ==
    /\ fpc = "except_add_feature"
    /\ features' = add_feature(filter_index, EmptyFeature)
    /\ io' = Append(io, "write_features")
    /\ Advance
    /\ UNCHANGED << class_names, enabled, filters, pfilters, curve, failed,
                    argvars, tesvars, err >>

\* The handler saves the fake feature.
ExceptAddFeature ==
    /\ fpc = "except_add_feature"
    /\ features' = add_feature(filter_index, EmptyFeature)
    /\ Advance
    /\ UNCHANGED << class_names, enabled, filters, pfilters, curve, failed,
                    argvars, io, tesvars, err >>

\* self.write_features(filename)
WriteFeatures ==
    /\ fpc = "write_features"
    /\ io' = Append(io, "write_features")
    /\ fpc' = "done"
    /\ UNCHANGED << regvars, pfilters, star_index, filter_index, curve,
                    failed, argvars, tesvars, err >>

\* What get_features may find about the features file of its argument.
\* "no_attribute": the argument is a ClassifierArguments, which defines
\* features_file_provided and features_file_name but none of the attributes
\* features_file_is_given, features_file and db_file that get_features
\* reads.  The other three are an argument that has those attributes.
FeaturesFiles == {"no_attribute", "not_given", "missing", "exists"}

\* get_features: classifarg.features_file_is_given raises AttributeError.
GetFeaturesAttributeError ==
    /\ fpc = "get_features"
    /\ features_file = "no_attribute"
    /\ fpc' = "aborted"
    /\ err' = "AttributeError"
    /\ UNCHANGED << regvars, pfilters, star_index, filter_index, curve,
                    failed, argvars, io, tesvars >>

\* get_features: the features file is given and exists; read_features is
\* invoked, and its body is empty.
GetFeaturesRead ==
    /\ fpc = "get_features"
    /\ features_file = "exists"
    /\ io' = Append(io, "read_features")
    /\ fpc' = "returned"
    /\ UNCHANGED << regvars, pfilters, star_index, filter_index, curve,
                    failed, argvars, tesvars, err >>

\* get_features: the features file is given and does not exist; the inner
\* if has no else, get_features returns.
GetFeaturesMissing ==
    /\ fpc = "get_features"
    /\ features_file = "missing"
    /\ fpc' = "returned"
    /\ UNCHANGED << regvars, pfilters, star_index, filter_index, curve,
                    failed, argvars, io, tesvars, err >>

\* get_features: no features file is given; calculate_features is entered.
GetFeaturesCalculate ==
    /\ fpc = "get_features"
    /\ features_file = "not_given"
    /\ fpc' = "add_filter"
    /\ UNCHANGED << regvars, pfilters, star_index, filter_index, curve,
                    failed, argvars, io, tesvars, err >>

(***************************************************************************)
(* trainevalsets.py: the read-only methods, as operators on the state.     *)
(* A method that raises returns a record whose field raised names the      *)
(* exception; otherwise raised is NoError.                                 *)
(***************************************************************************)
\* What the iterations first..(beyond - 1) of the loop of
\* get_indexes_for_class append, in order: every star of the class that is
\* enabled (the iterations of the first half of the range, then those of
\* the second half).
RECURSIVE IndexesInRange(_, _, _)
IndexesInRange(a_class_name, first, beyond) ==
    IF beyond <= first
    THEN << >>
    ELSE IF beyond = first + 1
         THEN IF class_name(first) = a_class_name /\ is_enabled(first) = TRUE
              THEN << first >>
              ELSE << >>
         ELSE LET middle == (first + beyond) \div 2
              IN  IndexesInRange(a_class_name, first, middle)
                  \o IndexesInRange(a_class_name, middle, beyond)

\* get_indexes_for_class(class_name)
get_indexes_for_class(a_class_name) ==
    IndexesInRange(a_class_name, 0, number_of_stars)

\* One iteration of the loop of count_instances_by_class, for star i;
\* counted holds the two lists built so far.
CountStar(i, counted) ==
    IF is_enabled(i) = TRUE
    THEN IF Contains(counted.unique_classes, class_name(i))
         THEN LET current_class_index ==
                      IndexOf(counted.unique_classes, class_name(i))
              IN  [counted EXCEPT
                      !.number_of_instances_by_class =
                          SetAt(@, current_class_index,
                                At(@, current_class_index) + 1)]
         ELSE [counted EXCEPT
                  !.unique_classes = Append(@, class_name(i)),
                  !.number_of_instances_by_class = Append(@, 1)]
    ELSE counted

\* The iterations for the stars first..(beyond - 1) of that loop, in order:
\* those of the first half of the range and then, on the lists these leave,
\* those of the second half.
RECURSIVE CountRange(_, _, _)
CountRange(first, beyond, counted) ==
    IF beyond <= first
    THEN counted
    ELSE IF beyond = first + 1
         THEN CountStar(first, counted)
         ELSE LET middle == (first + beyond) \div 2
                  half == CountRange(first, middle, counted)
              IN  IF half.raised = NoError
                  THEN CountRange(middle, beyond, half)
                  ELSE half

\* count_instances_by_class(): class_name(0) of an empty registry raises.
count_instances_by_class ==
    IF number_of_stars = 0
    THEN [raised |-> "IndexError",
          unique_classes |-> << >>,
          number_of_instances_by_class |-> << >>]
    ELSE CountRange(0, number_of_stars,
                    [raised |-> NoError,
                     unique_classes |-> << class_name(0) >>,
                     number_of_instances_by_class |-> << 0 >>])

\* A class of so many instances is bigger than the limit that is tolerated.
EnoughInstances_Strict(a_number_of_instances) ==
    a_number_of_instances > min_cardinal

\* The test of determine_classes_to_use_for_training on the number of
\* instances of a class.
EnoughInstances(a_number_of_instances) ==
    a_number_of_instances >= min_cardinal

\* The loop of determine_classes_to_use_for_training from class i on, over
\* the lists counted; tc and ci are the lists being appended to.
RECURSIVE DetermineFrom(_, _, _, _, _)
DetermineFrom(i, unique_classes, number_of_instances_by_class, tc, ci) ==
    IF i >= Len(unique_classes)
    THEN [raised |-> NoError, training_classes |-> tc,
          classes_indexes |-> ci]
    ELSE IF EnoughInstances(At(number_of_instances_by_class, i))
         THEN DetermineFrom(i + 1, unique_classes,
                  number_of_instances_by_class,
                  Append(tc, At(unique_classes, i)),
                  Append(ci, get_indexes_for_class(At(unique_classes, i))))
         ELSE DetermineFrom(i + 1, unique_classes,
                  number_of_instances_by_class, tc, ci)

\* determine_classes_to_use_for_training() on the lists tc and ci.
Determine(tc, ci) ==
    LET counted == count_instances_by_class
    IN  IF counted.raised # NoError
        THEN [raised |-> counted.raised, training_classes |-> tc,
              classes_indexes |-> ci]
        ELSE DetermineFrom(0, counted.unique_classes,
                           counted.number_of_instances_by_class, tc, ci)

\* The class-local index is taken for the index in the whole list.
WholeListIndex_Local(instances_set, i) == i

\* instances_set[i]: the index, in the whole list of stars, of instance
\* number i of a class.
WholeListIndex(instances_set, i) == At(instances_set, i)

\* One iteration of the inner loop of __get_indexes, for the element at
\* position j of index_set; instances_set[i] raises for an i it lacks.
TranslateIndex(j, index_set, instances_set, class_index, acc) ==
    IF index_set[j] >= Len(instances_set)
    THEN [acc EXCEPT !.raised = "IndexError"]
    ELSE [raised |-> NoError,
          whole_stars_set_indexes |->
              Append(acc.whole_stars_set_indexes,
                     WholeListIndex(instances_set, index_set[j])),
          class_identifiers |->
              Append(acc.class_identifiers, class_index)]

\* The iterations of that loop for the positions first..(beyond - 1) of
\* index_set, in order: those of the first half of the range and then,
\* unless one of them raised, those of the second half.
RECURSIVE TranslateRange(_, _, _, _, _, _)
TranslateRange(first, beyond, index_set, instances_set, class_index, acc) ==
    IF beyond <= first
    THEN acc
    ELSE IF beyond = first + 1
         THEN TranslateIndex(first, index_set, instances_set, class_index,
                             acc)
         ELSE LET middle == (first + beyond) \div 2
                  half == TranslateRange(first, middle, index_set,
                                         instances_set, class_index, acc)
              IN  IF half.raised = NoError
                  THEN TranslateRange(middle, beyond, index_set,
                                      instances_set, class_index, half)
                  ELSE half

\* The outer loop of __get_indexes from class_index on; sets_of_indexes
\* [class_index] raises for a class_index the list lacks.
RECURSIVE GetIndexesFrom(_, _, _)
GetIndexesFrom(class_index, sets_of_indexes, acc) ==
    IF acc.raised # NoError \/ class_index >= Len(training_classes)
    THEN acc
    ELSE IF class_index >= Len(sets_of_indexes)
            \/ class_index >= Len(classes_indexes)
         THEN [acc EXCEPT !.raised = "IndexError"]
         ELSE GetIndexesFrom(class_index + 1, sets_of_indexes,
                 TranslateRange(1, Len(At(sets_of_indexes, class_index)) + 1,
                                At(sets_of_indexes, class_index),
                                At(classes_indexes, class_index),
                                class_index, acc))

\* __get_indexes(sets_of_indexes)
get_indexes(sets_of_indexes) ==
    GetIndexesFrom(0, sets_of_indexes,
        [raised |-> NoError, whole_stars_set_indexes |-> << >>,
         class_identifiers |-> << >>])

\* training_indexes()
training_indexes == get_indexes(sets_of_training_indexes_for_classes)

\* evaluation_indexes()
evaluation_indexes == get_indexes(sets_of_evaluation_indexes_for_classes)

(***************************************************************************)
(* trainevalsets.py: the methods that change the TrainEvalSet.             *)
(***************************************************************************)
\* The percentage rounded to the nearest integer.
number_of_instances_for_training_Rounded(number_of_instances) ==
    (number_of_instances * training_set_percent + 50) \div 100

\* The percentage rounded up.
number_of_instances_for_training_Ceiling(number_of_instances) ==
    (number_of_instances * training_set_percent + 99) \div 100

\* int(number_of_instances * training_set_percent / 100), on integers.
number_of_instances_for_training(number_of_instances) ==
    (number_of_instances * training_set_percent) \div 100

\* random.sample(xrange(n), k) raises ValueError unless 0 <= k <= n.
SampleRaises(n, k) == k < 0 \/ k > n

\* Every list of k distinct elements of 0..n-1, in every order.
RECURSIVE AllSamples(_, _)
AllSamples(n, k) ==
    IF k <= 0
    THEN {<< >>}
    ELSE UNION {{Append(chosen, x) : x \in (0..(n - 1)) \ Elems(chosen)} :
                chosen \in AllSamples(n, k - 1)}

\* Lists of k consecutive elements of 0..n-1 (cyclically), one for each of
\* the first elements 0..MaxStars the population has.
WindowSamples(n, k) ==
    {[j \in 1..k |-> (start + j - 1) % n] :
        start \in {x \in 0..MaxStars : x < n}}

\* What random.sample(xrange(n), k) may return, for 0 <= k <= n: any list of
\* k distinct elements of 0..n-1.  For a population larger than the
\* registries the model enumerates, only the windows are drawn.
Samples(n, k) ==
    IF n <= MaxStars THEN AllSamples(n, k) ELSE WindowSamples(n, k)

\* What the iterations first..(beyond - 1) of the loop that fills
\* evaluation_indexes append, in order: every index that
\* training_indexes.index does not find.
RECURSIVE NotInTraining(_, _, _)
NotInTraining(a_training_indexes, first, beyond) ==
    IF beyond <= first
    THEN << >>
    ELSE IF beyond = first + 1
         THEN IF Contains(a_training_indexes, first)
              THEN << >>
              ELSE << first >>
         ELSE LET middle == (first + beyond) \div 2
              IN  NotInTraining(a_training_indexes, first, middle)
                  \o NotInTraining(a_training_indexes, middle, beyond)

\* The instances chosen for training are not left out.
EvaluationOf_WholeClass(instances, for_training, a_training_indexes) ==
    IF instances - for_training > 0
    THEN RangeList(instances)
    ELSE << >>

\* A single instance left is not used for evaluation.
EvaluationOf_OffByOne(instances, for_training, a_training_indexes) ==
    IF instances - for_training > 1
    THEN NotInTraining(a_training_indexes, 0, instances)
    ELSE << >>

\* evaluation_indexes of a class of number_of_instances instances of which
\* a_number_for_training were asked for training: filled only when an
\* instance is left for evaluation.
EvaluationOf(number_of_instances, a_number_for_training, a_training_indexes) ==
    IF number_of_instances - a_number_for_training > 0
    THEN NotInTraining(a_training_indexes, 0, number_of_instances)
    ELSE << >>

\* Number of leading classes of ci whose random.sample call does not raise.
RECURSIVE SampledUpTo(_, _)
SampledUpTo(ci, j) ==
    IF j > Len(ci)
    THEN Len(ci)
    ELSE IF SampleRaises(Len(ci[j]),
                         number_of_instances_for_training(Len(ci[j])))
         THEN j - 1
         ELSE SampledUpTo(ci, j + 1)

\* Every list of training index lists the first m classes of ci may get.
RECURSIVE SampleChoices(_, _)
SampleChoices(ci, m) ==
    IF m = 0
    THEN {<< >>}
    ELSE {Append(before, sample) :
            before \in SampleChoices(ci, m - 1),
            sample \in Samples(Len(ci[m]),
                          number_of_instances_for_training(Len(ci[m])))}

\* TrainEvalSet(classifarg, star_classes)
NewTrainEvalSet ==
    /\ fpc = "done"
    /\ tes = "none"
    /\ tes' = "live"
    /\ min_cardinal' = classifarg.stars_set_min_cardinal
    /\ training_set_percent' = classifarg.training_set_percent
    /\ training_classes' = << >>
    /\ classes_indexes' = << >>
    /\ sets_of_training_indexes_for_classes' = << >>
    /\ sets_of_evaluation_indexes_for_classes' = << >>
    /\ UNCHANGED << regvars, featvars, calls, err >>

\* A call on the TrainEvalSet may start.
MayCall == fpc = "done" /\ tes = "live" /\ Len(calls) < MaxCalls

\* What determine_classes_to_use_for_training does to the TrainEvalSet.
DetermineClassesToUseForTraining ==
    /\ calls' = Append(calls, "determine")
    /\ \E d \in {Determine(training_classes, classes_indexes)} :
         /\ training_classes' = d.training_classes
         /\ classes_indexes' = d.classes_indexes
         /\ err' = d.raised
         /\ tes' = IF d.raised = NoError THEN "live" ELSE "aborted"
    /\ UNCHANGED << regvars, featvars, min_cardinal, training_set_percent,
                    sets_of_training_indexes_for_classes,
                    sets_of_evaluation_indexes_for_classes >>

\* What calculate_training_and_evaluation_sets does to the TrainEvalSet.
CalculateTrainingAndEvaluationSets ==
    /\ calls' = Append(calls, "calculate")
    /\ \E d \in {Determine(training_classes, classes_indexes)} :
         /\ training_classes' = d.training_classes
         /\ classes_indexes' = d.classes_indexes
         /\ \E m \in {IF d.raised = NoError
                      THEN SampledUpTo(classes_indexes', 1) ELSE 0} :
              /\ \E chosen \in SampleChoices(classes_indexes', m) :
                   /\ sets_of_training_indexes_for_classes' =
                          sets_of_training_indexes_for_classes \o chosen
                   /\ sets_of_evaluation_indexes_for_classes' =
                          sets_of_evaluation_indexes_for_classes \o
                          [j \in 1..m |->
                              EvaluationOf(Len(classes_indexes'[j]),
                                  number_of_instances_for_training(
                                      Len(classes_indexes'[j])),
                                  chosen[j])]
              /\ err' = IF d.raised # NoError THEN d.raised
                        ELSE IF m < Len(classes_indexes')
                             THEN "ValueError" ELSE NoError
              /\ tes' = IF d.raised = NoError /\ m = Len(classes_indexes')
                        THEN "live" ELSE "aborted"
    /\ UNCHANGED << regvars, featvars, min_cardinal, training_set_percent >>

\* What set_all_stars_for_training does to the TrainEvalSet.
SetAllStarsForTraining ==
    /\ calls' = Append(calls, "set_all")
    /\ \E d \in {Determine(training_classes, classes_indexes)} :
         /\ training_classes' = d.training_classes
         /\ classes_indexes' = d.classes_indexes
         /\ sets_of_training_indexes_for_classes' =
                IF d.raised # NoError
                THEN sets_of_training_indexes_for_classes
                ELSE sets_of_training_indexes_for_classes \o
                     [j \in 1..Len(classes_indexes') |->
                         RangeList(Len(classes_indexes'[j]))]
         /\ err' = d.raised
         /\ tes' = IF d.raised = NoError THEN "live" ELSE "aborted"
    /\ UNCHANGED << regvars, featvars, min_cardinal, training_set_percent,
                    sets_of_evaluation_indexes_for_classes >>

\* determine_classes_to_use_for_training(), called on its own.
determine_classes_to_use_for_training ==
    MayCall /\ DetermineClassesToUseForTraining

\* calculate_training_and_evaluation_sets()
calculate_training_and_evaluation_sets ==
    MayCall /\ CalculateTrainingAndEvaluationSets

\* set_all_stars_for_training()
set_all_stars_for_training ==
    MayCall /\ SetAllStarsForTraining

\* One more call may start on a TrainEvalSet that has had the calls of a run.
MayCallAgain == fpc = "done" /\ tes = "live" /\ Len(calls) = MaxCalls

\* calculate_training_and_evaluation_sets(), on the same TrainEvalSet again.
calculate_training_and_evaluation_sets_again ==
    MayCallAgain /\ CalculateTrainingAndEvaluationSets

\* set_all_stars_for_training(), on the same TrainEvalSet again.
set_all_stars_for_training_again ==
    MayCallAgain /\ SetAllStarsForTraining

\* The objects of a run before anything is extracted: the registry holds
\* enabled stars without features, and no TrainEvalSet is constructed yet.
InitObjects ==
    /\ enabled = [j \in 1..Len(class_names) |-> TRUE]
    /\ filters = << >>
    /\ features = << >>
    /\ star_index = 0
    /\ filter_index = 0
    /\ curve = None
    /\ failed = {}
    /\ tes = "none"
    /\ min_cardinal = 0
    /\ training_set_percent = 0
    /\ training_classes = << >>
    /\ classes_indexes = << >>
    /\ sets_of_training_indexes_for_classes = << >>
    /\ sets_of_evaluation_indexes_for_classes = << >>
    /\ calls = << >>
    /\ io = << >>
    /\ err = NoError

\* calculate_features is called directly, no features file is involved.
InitRun ==
    /\ InitObjects
    /\ features_file = "not_given"
    /\ fpc = "add_filter"

Init ==
    /\ \E n \in 0..MaxStars : class_names \in [1..n -> ClassNames]
    /\ \E n \in 0..MaxFilters : pfilters = [j \in 1..n |-> j]
    /\ \E c \in MinCardinals, g \in Percents :
          classifarg = [stars_set_min_cardinal |-> c,
                        training_set_percent |-> g]
    /\ InitRun

\* The counts of the five classes of the scenario, and their labels.
ScenarioCounts == << 30, 10, 5, 40, 2 >>
ScenarioLabels == << "V", "W", "X", "Y", "Z" >>

\* The labels of the stars of the scenario, class after class.
RECURSIVE ScenarioStarsFrom(_)
ScenarioStarsFrom(c) ==
    IF c > Len(ScenarioCounts)
    THEN << >>
    ELSE [j \in 1..ScenarioCounts[c] |-> ScenarioLabels[c]]
         \o ScenarioStarsFrom(c + 1)

ScenarioClassNames == ScenarioStarsFrom(1)

\* The scenario: 87 stars of five classes, a database without filters,
\* minimum cardinality 15 and training percent 70.
InitScenario ==
    /\ class_names = ScenarioClassNames
    /\ pfilters = << >>
    /\ classifarg = [stars_set_min_cardinal |-> 15,
                     training_set_percent |-> 70]
    /\ InitRun

Next ==
    \/ AddFilter
    \/ EnterLoops
    \/ GetLightCurve
    \/ TryAddFeature
    \/ ExceptDisableStar
    \/ ExceptAddFeature
    \/ WriteFeatures
    \/ NewTrainEvalSet
    \/ determine_classes_to_use_for_training
    \/ calculate_training_and_evaluation_sets
    \/ set_all_stars_for_training

Spec == Init /\ [][Next]_vars

\* The same program, started on the small registries or on the scenario.
SpecScenario == (Init \/ InitScenario) /\ [][Next]_vars
(***************************************************************************)
(* Vocabulary of the properties.                                           *)
(***************************************************************************)
Stars == 0..(number_of_stars - 1)

\* The enabled stars carrying a label.
EnabledOfClass(label) ==
    {i \in Stars : is_enabled(i) /\ class_name(i) = label}

\* floor(n * p / 100), stated without the division of the code.
FloorOfPercent(n, p) ==
    CHOOSE q \in (-(n * 2 + 1))..(n * 2 + 1) :
        q * 100 <= n * p /\ n * p < (q + 1) * 100

\* No element occurs twice in a list.
NoRepeats(list) == Cardinality(Elems(list)) = Len(list)

\* calculate_features has returned.
FeaturesCalculated == fpc = "done"

\* calculate_features has returned and nothing was done since.
FeaturesReturned == fpc = "done" /\ tes = "none"

\* calculate_training_and_evaluation_sets has returned, and it was the only
\* call made on the TrainEvalSet.
CalculatedOnFresh == tes = "live" /\ calls = << "calculate" >>

\* set_all_stars_for_training has returned, and it was the only call made.
SetAllOnFresh == tes = "live" /\ calls = << "set_all" >>

\* Some partitioning call has returned.
Determined == tes = "live" /\ calls # << >>

\* The feature stored for star s in filter f.
FeatureOf(s, f) == At(At(features, f), s)

(***************************************************************************)
(* C1.  Whatever (star, filter) extractions fail, calculate_features       *)
(* reaches its end, and then every filter's feature list has one entry per *)
(* star, entry s being the vector built from star s's curve in that filter *)
(* when the extraction succeeded and the empty placeholder exactly when it *)
(* failed.  The lists are examined in the state in which                   *)
(* calculate_features returns; no later operation changes a feature list.  *)
(* Before its end calculate_features always has a next step.               *)
(***************************************************************************)
FeatureStep ==
    \/ AddFilter
    \/ EnterLoops
    \/ GetLightCurve
    \/ TryAddFeature
    \/ ExceptDisableStar
    \/ ExceptAddFeature
    \/ WriteFeatures

C1_PlaceholderPerFailedPair ==
    /\ ~FeaturesCalculated => ENABLED FeatureStep
    /\ FeaturesReturned =>
         /\ filters = pfilters
         /\ Len(features) = Len(filters)
         /\ \A f \in 0..(Len(filters) - 1) :
              /\ Len(At(features, f)) = number_of_stars
              /\ \A s \in Stars :
                   /\ FeatureOf(s, f) = EmptyFeature <=> << s, f >> \in failed
                   /\ << s, f >> \notin failed =>
                        FeatureOf(s, f) =
                            save_feature(LightCurve(get_instance_id(s),
                                                    At(filters, f)))

\* calculate_features ended after a failure of a star that is not the last
\* one, in a filter that is not the last one.
C1_Witness ==
    /\ FeaturesReturned
    /\ \E s \in Stars, f \in 0..(Len(filters) - 1) :
         /\ << s, f >> \in failed
         /\ s + 1 < number_of_stars
         /\ f + 1 < Len(filters)
         /\ << s + 1, f >> \notin failed

(***************************************************************************)
(* C2.  After calculate_training_and_evaluation_sets on a fresh            *)
(* TrainEvalSet every retained class of n instances, with k the training   *)
(* size, has training and evaluation lists that are disjoint, without a    *)
(* repeated index and within 0..n-1; their union is 0..n-1 when n - k > 0, *)
(* and the evaluation list is empty when n - k = 0.                        *)
(***************************************************************************)
C2_TrainingEvaluationPartition ==
    CalculatedOnFresh =>
        /\ Len(sets_of_training_indexes_for_classes) = Len(classes_indexes)
        /\ Len(sets_of_evaluation_indexes_for_classes) = Len(classes_indexes)
        /\ \A j \in 1..Len(classes_indexes) :
             LET n == Len(classes_indexes[j])
                 k == FloorOfPercent(n, training_set_percent)
                 training == sets_of_training_indexes_for_classes[j]
                 evaluation == sets_of_evaluation_indexes_for_classes[j]
             IN  /\ Elems(training) \cap Elems(evaluation) = {}
                 /\ NoRepeats(training)
                 /\ NoRepeats(evaluation)
                 /\ Elems(training) \subseteq 0..(n - 1)
                 /\ Elems(evaluation) \subseteq 0..(n - 1)
                 /\ n - k > 0 =>
                      Elems(training) \cup Elems(evaluation) = 0..(n - 1)
                 /\ n - k = 0 => evaluation = << >>

\* A class of three instances was split into a non-empty training and a
\* non-empty evaluation list.
C2_Witness ==
    /\ CalculatedOnFresh
    /\ \E j \in 1..Len(classes_indexes) :
         /\ Len(classes_indexes[j]) = 3
         /\ sets_of_training_indexes_for_classes[j] # << >>
         /\ sets_of_evaluation_indexes_for_classes[j] # << >>

IndexesMatchClasses(returned) ==
    returned.raised = NoError =>
        /\ Len(returned.whole_stars_set_indexes)
               = Len(returned.class_identifiers)
        /\ \A j \in 1..Len(returned.whole_stars_set_indexes) :
             \A star \in {returned.whole_stars_set_indexes[j]},
                identifier \in {returned.class_identifiers[j]} :
                 /\ star \in Stars
                 /\ is_enabled(star)
                 /\ identifier \in 0..(Len(training_classes) - 1)
                 /\ class_name(star) = At(training_classes, identifier)

C4_ReturnedIndexesMatchClasses ==
    \A returned \in {training_indexes, evaluation_indexes} :
        IndexesMatchClasses(returned)

\* training_indexes() returned stars of two classes, one of them a star
\* whose position in its class differs from its position in the registry
\* because an earlier star of the class is disabled.
C4_Witness ==
    /\ tes = "live"
    /\ training_indexes.raised = NoError
    /\ evaluation_indexes.raised = NoError
    /\ \E a, b \in 1..Len(training_indexes.class_identifiers) :
         training_indexes.class_identifiers[a]
             # training_indexes.class_identifiers[b]
    /\ \E j \in 1..Len(training_indexes.whole_stars_set_indexes) :
         \E s \in Stars :
            /\ s < training_indexes.whole_stars_set_indexes[j]
            /\ ~is_enabled(s)
            /\ class_name(s)
                 = class_name(training_indexes.whole_stars_set_indexes[j])

(***************************************************************************)
(* C5.  After calculate_training_and_evaluation_sets on a fresh            *)
(* TrainEvalSet, training_indexes() and evaluation_indexes() return, and   *)
(* the sum of their lengths is the number of enabled stars whose class was *)
(* retained.                                                               *)
(***************************************************************************)
C5_LengthsSumToRetainedStars ==
    CalculatedOnFresh =>
        /\ training_indexes.raised = NoError
        /\ evaluation_indexes.raised = NoError
        /\ Len(training_indexes.whole_stars_set_indexes)
             + Len(evaluation_indexes.whole_stars_set_indexes)
           = Cardinality({i \in Stars :
                 is_enabled(i) /\ Contains(training_classes, class_name(i))})

\* Both sequences are non-empty, and an enabled star was left out because
\* its class was not retained.
C5_Witness ==
    /\ CalculatedOnFresh
    /\ training_indexes.whole_stars_set_indexes # << >>
    /\ evaluation_indexes.whole_stars_set_indexes # << >>
    /\ \E i \in Stars :
         is_enabled(i) /\ ~Contains(training_classes, class_name(i))

(***************************************************************************)
(* C6.  When calculate_features has ended, every star whose extraction     *)
(* failed in some filter is disabled, and partitioning leaves it out:      *)
(* get_indexes_for_class returns it for no class, the counts of            *)
(* count_instances_by_class are those of the enabled stars alone, and      *)
(* neither training_indexes() nor evaluation_indexes() holds its index.    *)
(***************************************************************************)
C6_FailedStarLeftOut ==
    FeaturesCalculated =>
        /\ \A pair \in failed : ~is_enabled(pair[1])
        /\ failed # {} =>
             /\ \A label \in Elems(class_names) :
                  \A indexes \in {get_indexes_for_class(label)} :
                     \A pair \in failed : ~Contains(indexes, pair[1])
             /\ \A returned \in {training_indexes, evaluation_indexes} :
                  \A pair \in failed :
                     ~Contains(returned.whole_stars_set_indexes, pair[1])
        /\ \A counted \in {count_instances_by_class} :
             counted.raised = NoError =>
                 \A j \in 1..Len(counted.unique_classes) :
                    counted.number_of_instances_by_class[j]
                      = Cardinality(EnabledOfClass(counted.unique_classes[j]))

\* A star failed in one filter and succeeded in another, and the sets were
\* calculated, with a star of its class used for training.
C6_Witness ==
    /\ CalculatedOnFresh
    /\ \E pair \in failed :
         /\ \E f \in 0..(Len(filters) - 1) : << pair[1], f >> \notin failed
         /\ \E j \in 1..Len(training_indexes.whole_stars_set_indexes) :
              class_name(training_indexes.whole_stars_set_indexes[j])
                  = class_name(pair[1])

(***************************************************************************)
(* C7.  As claimed, for a registry that holds stars:                       *)
(* count_instances_by_class returns the labels of the enabled stars, each  *)
(* once, in the order of their first enabled star, and for each the number *)
(* of enabled stars that carry it.                                         *)
(***************************************************************************)
FirstEnabledOfClass(label) ==
    CHOOSE i \in EnabledOfClass(label) :
        \A h \in EnabledOfClass(label) : i <= h

C7_LabelsOfEnabledStarsFirstSeen ==
    FeaturesCalculated /\ number_of_stars > 0 =>
        LET counted == count_instances_by_class
            labels == counted.unique_classes
        IN  /\ counted.raised = NoError
            /\ Elems(labels) = {class_name(i) : i \in {h \in Stars : is_enabled(h)}}
            /\ NoRepeats(labels)
            /\ \A a, b \in 1..Len(labels) :
                 a < b => FirstEnabledOfClass(labels[a])
                              < FirstEnabledOfClass(labels[b])
            /\ Len(counted.number_of_instances_by_class) = Len(labels)
            /\ \A j \in 1..Len(labels) :
                 counted.number_of_instances_by_class[j]
                     = Cardinality(EnabledOfClass(labels[j]))

(***************************************************************************)
(* C8.  As claimed, for a registry that holds only disabled stars:         *)
(* count_instances_by_class raises nothing and returns no label and no     *)
(* count, and determine_classes_to_use_for_training on a fresh             *)
(* TrainEvalSet raises nothing and leaves no retained class and no class   *)
(* index list.                                                             *)
(***************************************************************************)
C8_EmptyOutputsWithoutEnabledStars ==
    (/\ FeaturesCalculated
     /\ number_of_stars > 0
     /\ \A i \in Stars : ~is_enabled(i)) =>
        /\ count_instances_by_class
             = [raised |-> NoError, unique_classes |-> << >>,
                number_of_instances_by_class |-> << >>]
        /\ calls = << "determine" >> =>
             /\ tes = "live"
             /\ training_classes = << >>
             /\ classes_indexes = << >>

(***************************************************************************)
(* C9.  As claimed: after set_all_stars_for_training on a fresh            *)
(* TrainEvalSet the training list of every retained class of n instances   *)
(* is 0..n-1, training_indexes() returns every enabled star of every       *)
(* retained class once, and evaluation_indexes() returns two empty         *)
(* sequences.                                                              *)
(***************************************************************************)
C9_AllForTrainingNoneForEvaluation ==
    SetAllOnFresh =>
        /\ Len(sets_of_training_indexes_for_classes) = Len(classes_indexes)
        /\ \A j \in 1..Len(classes_indexes) :
             sets_of_training_indexes_for_classes[j]
                 = RangeList(Len(classes_indexes[j]))
        /\ training_indexes.raised = NoError
        /\ NoRepeats(training_indexes.whole_stars_set_indexes)
        /\ Elems(training_indexes.whole_stars_set_indexes)
             = {i \in Stars :
                  is_enabled(i) /\ Contains(training_classes, class_name(i))}
        /\ evaluation_indexes
             = [raised |-> NoError, whole_stars_set_indexes |-> << >>,
                class_identifiers |-> << >>]

(***************************************************************************)
(* C10.  After calculate_training_and_evaluation_sets on a fresh           *)
(* TrainEvalSet every retained class of n instances has a training list of *)
(* exactly floor(n * p / 100) indexes and an evaluation list of exactly    *)
(* n - floor(n * p / 100) indexes, p being the training percent; with the  *)
(* class counts 30, 10, 5, 40, 2, minimum cardinality 15 and p = 70 the    *)
(* retained classes are those of 30 and 40 stars, with 21 and 28 training  *)
(* and 9 and 12 evaluation indexes.                                        *)
(***************************************************************************)
LengthsOf(lists) == [j \in 1..Len(lists) |-> Len(lists[j])]

InitGetFeatures ==
    /\ \E n \in 0..MaxStars : class_names \in [1..n -> ClassNames]
    /\ \E n \in 0..MaxFilters : pfilters = [j \in 1..n |-> j]
    /\ classifarg = [stars_set_min_cardinal |-> 25,
                     training_set_percent |-> 75]
    /\ features_file \in FeaturesFiles
    /\ fpc = "get_features"
    /\ InitObjects

NextGetFeatures ==
    \/ GetFeaturesAttributeError
    \/ GetFeaturesRead
    \/ GetFeaturesMissing
    \/ GetFeaturesCalculate
    \/ AddFilter
    \/ EnterLoops
    \/ GetLightCurve
    \/ TryAddFeature
    \/ ExceptDisableStar
    \/ ExceptAddFeature
    \/ WriteFeatures

SpecGetFeatures == InitGetFeatures /\ [][NextGetFeatures]_vars

\* get_features has ended, by returning or by an exception.
GetFeaturesEnded == fpc \in {"returned", "done", "aborted"}

\* Every filter of the database has a feature list with one entry per star.
FeaturesOfEveryStar ==
    /\ filters = pfilters
    /\ Len(features) = Len(filters)
    /\ \A f \in 0..(Len(filters) - 1) :
         Len(At(features, f)) = number_of_stars

(***************************************************************************)
(* C11.  As claimed: get_features always ends by returning; when the       *)
(* features file is given and exists, read_features is invoked and         *)
(* calculate_features is not run (nothing is written); when the file is    *)
(* given but does not exist, or no file is given, the features of every    *)
(* star are calculated in every filter and write_features is invoked once. *)
(***************************************************************************)
C11_GetFeaturesReadsOrCalculates ==
    GetFeaturesEnded =>
        /\ fpc # "aborted"
        /\ features_file = "exists" => io = << "read_features" >>
        /\ features_file # "exists" =>
             /\ FeaturesOfEveryStar
             /\ io = << "write_features" >>

(***************************************************************************)
(* C12.  In every step of calculate_features and of the partitioning       *)
(* operations that follow it, a star that is disabled stays disabled, and  *)
(* a star that is enabled becomes disabled only in the step in which the   *)
(* extraction of that very star has failed (the except handler is entered  *)
(* for it).                                                                *)
(***************************************************************************)
EnabledOnlyFallsOnFailure ==
    \A i \in Stars :
        /\ ~is_enabled(i) => ~enabled'[i + 1]
        /\ (is_enabled(i) /\ ~enabled'[i + 1]) =>
              /\ fpc = "try"
              /\ curve = None
              /\ star_index = i

C12_EnabledNeverRestored == [][EnabledOnlyFallsOnFailure]_vars

\* A star failed in one filter, succeeded in a later one, and a partitioning
\* call was made afterwards: the star is still disabled.
C12_Witness ==
    /\ Determined
    /\ \E pair \in failed :
         /\ ~is_enabled(pair[1])
         /\ \E f \in (pair[2] + 1)..(Len(filters) - 1) :
              << pair[1], f >> \notin failed

(***************************************************************************)
(* Runs with one set of arguments: calculate_features, then partitioning   *)
(* with -c 1 and the percent parse() leaves without -g.                    *)
(***************************************************************************)
InitExtraction ==
    /\ \E n \in 0..MaxStars : class_names \in [1..n -> ClassNames]
    /\ \E n \in 0..MaxFilters : pfilters = [j \in 1..n |-> j]
    /\ classifarg = [stars_set_min_cardinal |-> 1,
                     training_set_percent |-> 75]
    /\ InitRun

SpecExtraction == InitExtraction /\ [][Next]_vars

\* The (star, filter) slots that hold a feature, as (position, position).
FilledSlots ==
    {slot \in Stars \X (0..(Len(features) - 1)) :
        slot[1] < Len(At(features, slot[2]))}

(***************************************************************************)
(* C13.  In every state during and after calculate_features, the states    *)
(* between the two registry calls of the except handler included, every    *)
(* (star, filter) slot that holds the empty feature vector belongs to a    *)
(* star that is disabled.                                                  *)
(***************************************************************************)
C13_EmptyVectorOnlyForDisabled ==
    \A slot \in FilledSlots :
        FeatureOf(slot[1], slot[2]) = EmptyFeature => ~is_enabled(slot[1])

\* A star that holds a placeholder in one filter has its curve of a later
\* filter retrieved and is about to get a feature vector there.
C13_Witness ==
    /\ fpc = "try"
    /\ curve # None
    /\ \E slot \in FilledSlots :
         /\ slot[1] = star_index
         /\ FeatureOf(slot[1], slot[2]) = EmptyFeature

(***************************************************************************)
(* C14.  As claimed: whenever calculate_features has just requested a      *)
(* light curve, the star it was requested for is enabled.                  *)
(***************************************************************************)
C14_CurveRequestedOnlyForEnabled ==
    fpc = "try" => is_enabled(star_index)

(***************************************************************************)
(* C15.  In every run of calculate_features: the filter set changes only   *)
(* while the filters are being added, which is over, with every filter of  *)
(* the database added, before the first light curve is requested and the   *)
(* first feature added, and is never resumed; write_features is invoked    *)
(* once, when every filter holds a feature for every star, and never       *)
(* again.                                                                  *)
(***************************************************************************)
FiltersThenStarsThenWrite ==
    /\ filters' # filters => fpc = "add_filter" /\ fpc' = "add_filter"
    /\ fpc # "add_filter" => fpc' # "add_filter"
    /\ (fpc = "add_filter" /\ fpc' # "add_filter") => filters = pfilters
    /\ curve' # curve => fpc \in {"get_curve", "try"}
    /\ (features' # features /\ fpc # "add_filter") =>
          fpc \in {"try", "except_add_feature"}
    /\ io' # io =>
          /\ io = << >>
          /\ io' = << "write_features" >>
          /\ FeaturesOfEveryStar
          /\ features' = features
    /\ fpc' = "done" => io' = << "write_features" >>

C15_FiltersFirstWriteOnceLast == [][FiltersThenStarsThenWrite]_vars

\* calculate_features ended on two filters after the extraction of the last
\* (star, filter) pair failed.
C15_Witness ==
    /\ FeaturesCalculated
    /\ io = << "write_features" >>
    /\ Len(filters) = 2
    /\ number_of_stars > 1
    /\ << number_of_stars - 1, 1 >> \in failed

(***************************************************************************)
(* Runs that call the partitioning methods of one TrainEvalSet once more.  *)
(***************************************************************************)
NextRepeated ==
    \/ AddFilter
    \/ EnterLoops
    \/ GetLightCurve
    \/ TryAddFeature
    \/ ExceptDisableStar
    \/ ExceptAddFeature
    \/ WriteFeatures
    \/ NewTrainEvalSet
    \/ determine_classes_to_use_for_training
    \/ calculate_training_and_evaluation_sets
    \/ set_all_stars_for_training
    \/ calculate_training_and_evaluation_sets_again
    \/ set_all_stars_for_training_again

SpecRepeated == InitExtraction /\ [][NextRepeated]_vars

\* Only calculate_training_and_evaluation_sets and
\* set_all_stars_for_training were called, at least once, and all returned.
OnlySetsCalculated ==
    /\ tes = "live"
    /\ calls # << >>
    /\ \A j \in 1..Len(calls) : calls[j] \in {"calculate", "set_all"}

(***************************************************************************)
(* C16.  As claimed: after any sequence of calls of                        *)
(* calculate_training_and_evaluation_sets and set_all_stars_for_training   *)
(* on one TrainEvalSet, the retained-class list holds each label at most   *)
(* once, there is one training index set per retained label, and           *)
(* training_indexes() returns each global star index at most once.         *)
(***************************************************************************)
C16_NothingCarriedOver ==
    OnlySetsCalculated =>
        /\ NoRepeats(training_classes)
        /\ Len(sets_of_training_indexes_for_classes)
             = Cardinality(Elems(training_classes))
        /\ \A returned \in {training_indexes} :
             /\ returned.raised = NoError
             /\ NoRepeats(returned.whole_stars_set_indexes)

(***************************************************************************)
(* classifargs.py: construction of ClassifierArguments, then parse().      *)
(***************************************************************************)
\* self.__max_percent and self.__max_trees
max_percent == 99
max_trees == 200

\* The integers given to the constructor and on the command line.
ArgumentInts == {-1, 0, 1, 99, 100, 200, 201}

\* ClassifierArguments.__init__: the values kept from its three arguments.
ClassifierArguments(stars_set_min_cardinal_, training_set_percent_, number_of_trees_) ==
    [stars_set_min_cardinal |-> stars_set_min_cardinal_,
     training_set_percent |->
         IF 0 < training_set_percent_ /\ training_set_percent_ <= max_percent
         THEN training_set_percent_
         ELSE max_percent,
     number_of_trees |->
         IF 0 < number_of_trees_ /\ number_of_trees_ <= max_trees
         THEN number_of_trees_
         ELSE max_trees]

\* What parse_args() yields for -c, -g and -r: the integer of the command
\* line, or the default of the argument (25, 75, 50) when it is not given.
\* It is never None, so the three tests of parse() always succeed.
ParsedArgs ==
    [c : ArgumentInts \cup {25},
     g : ArgumentInts \cup {75},
     r : ArgumentInts \cup {50}]

\* The values held after parse() has got args from parse_args().
parse(args) ==
    [stars_set_min_cardinal |-> args.c,
     training_set_percent |-> args.g,
     number_of_trees |-> args.r]

\* parse()
Parse ==
    /\ fpc = "parse"
    /\ \E args \in ParsedArgs : classifarg' = parse(args)
    /\ fpc' = "parsed"
    /\ UNCHANGED << regvars, pfilters, star_index, filter_index, curve,
                    failed, features_file, io, tesvars, err >>

\* A ClassifierArguments has been constructed, parse() was not called yet.
InitArguments ==
    /\ \E c \in ArgumentInts, g \in ArgumentInts, r \in ArgumentInts :
          classifarg = ClassifierArguments(c, g, r)
    /\ class_names = << >>
    /\ pfilters = << >>
    /\ features_file = "not_given"
    /\ fpc = "parse"
    /\ InitObjects

SpecArguments == InitArguments /\ [][Parse]_vars

(***************************************************************************)
(* C17.  As claimed: right after construction and after parse(), the       *)
(* training percent is in 1..99 and the number of trees in 1..200.         *)
(***************************************************************************)
C17_ArgumentsAlwaysValidated ==
    fpc \in {"parse", "parsed"} =>
        /\ classifarg.training_set_percent \in 1..max_percent
        /\ classifarg.number_of_trees \in 1..max_trees

(***************************************************************************)
(* Runs whose training percent is one the constructor of                   *)
(* ClassifierArguments lets through.                                       *)
(***************************************************************************)
\* The ends and the middle of 1..max_percent.
ValidPercents == {1, 50, max_percent}

InitValidated ==
    /\ \E n \in 0..MaxStars : class_names \in [1..n -> ClassNames]
    /\ \E n \in 0..MaxFilters : pfilters = [j \in 1..n |-> j]
    /\ \E c \in MinCardinals, g \in ValidPercents :
          classifarg = ClassifierArguments(c, g, max_trees)
    /\ InitRun

SpecValidated == InitValidated /\ [][Next]_vars

(***************************************************************************)
(* C18.  With a training percent in 1..99, random.sample never raises in   *)
(* calculate_training_and_evaluation_sets on a fresh TrainEvalSet, and     *)
(* when the call has returned every retained class with n >= 1 instances   *)
(* has a training list of floor(n * percent / 100) < n indexes and an      *)
(* evaluation list that is not empty.                                      *)
(***************************************************************************)
C18_EvaluationNeverEmpty ==
    (/\ calls = << "calculate" >>
     /\ training_set_percent \in 1..max_percent) =>
        /\ err # "ValueError"
        /\ tes = "live" =>
             \A j \in 1..Len(classes_indexes) :
                \A n \in {Len(classes_indexes[j])} :
                   n >= 1 =>
                      /\ Len(sets_of_training_indexes_for_classes[j])
                           = FloorOfPercent(n, training_set_percent)
                      /\ Len(sets_of_training_indexes_for_classes[j]) < n
                      /\ sets_of_evaluation_indexes_for_classes[j] # << >>

\* With percent 99 a class of three instances keeps one for evaluation, and
\* with percent 1 a class of one instance keeps it for evaluation.
C18_Witness ==
    /\ CalculatedOnFresh
    /\ \E j \in 1..Len(classes_indexes) :
         \/ /\ training_set_percent = max_percent
            /\ Len(classes_indexes[j]) = 3
            /\ Len(sets_of_evaluation_indexes_for_classes[j]) = 1
         \/ /\ training_set_percent = 1
            /\ Len(classes_indexes[j]) = 1
            /\ Len(sets_of_evaluation_indexes_for_classes[j]) = 1

=============================================================================
